---- MODULE Spec2Model ----
(***************************************************************************)
(* The conversion dispatcher of arviz/data/converters.py:                  *)
(* convert_to_inference_data, convert_to_dataset and the module-level      *)
(* branch coverage table branch_ids they record into.                      *)
(*                                                                         *)
(* Python values are records carrying the attributes the dispatcher        *)
(* inspects (identity, class name, module, isinstance answers, string      *)
(* contents, sequence elements, DataArray name, container groups).         *)
(* Strings the code scans (endswith / startswith) are sequences of         *)
(* characters.                                                             *)
(***************************************************************************)
EXTENDS Naturals, Sequences, FiniteSets, TLC

VARIABLES
    branch_ids,   \* module-level coverage table, converters.py line 23
    before,       \* history: branch_ids as it was when the last call started
    arrayName,    \* heap: the .name attribute of the caller's DataArray objects
    call,         \* arguments of the last top-level call
    outcome,      \* what the last top-level call did
    ncalls,       \* number of top-level calls made so far
    rgroup,       \* routing harness: group name
    rsite,        \* routing harness: which copy of the routing step
    rbag,         \* routing harness: the argument bag
    rprev,        \* routing harness: the bag before the last application
    rerr,         \* routing harness: error raised by the last application
    rsteps        \* routing harness: number of applications so far

vars == <<branch_ids, before, arrayName, call, outcome, ncalls,
          rgroup, rsite, rbag, rprev, rerr, rsteps>>

routeVars == <<rgroup, rsite, rbag, rprev, rerr, rsteps>>

\* ---------------------------------------------------------------- bounds

MaxCalls == 2
MaxRouteSteps == 2

\* ---------------------------------------------------------------- strings

CSV == <<".", "c", "s", "v">>
PYRO == <<"p", "y", "r", "o">>
NUMPYRO == <<"n", "u", "m", "p", "y", "r", "o">>
STAN_FIT == <<"s", "t", "a", "n", ".", "f", "i", "t">>
BUILTINS == <<"b", "u", "i", "l", "t", "i", "n", "s">>

\* str.endswith
endswith(s, suffix) ==
    /\ Len(s) >= Len(suffix)
    /\ SubSeq(s, Len(s) - Len(suffix) + 1, Len(s)) = suffix

\* str.startswith
startswith(s, prefix) ==
    /\ Len(s) >= Len(prefix)
    /\ SubSeq(s, 1, Len(prefix)) = prefix

\* ---------------------------------------------------------------- values

\* Group names (the keyword under which a value is converted).
Groups == {"posterior", "prior", "sample_stats", "sample_stats_prior"}

\* A reference to a labeled dataset: its identity and its variable names.
DSRef(id, vs) == [id |-> id, vars |-> vs]
NoDS == DSRef(0, {})

NoGroups == [g \in Groups |-> NoDS]

\* A Python object with the attributes the dispatcher reads.
Base(id, cls, mod) ==
    [id |-> id, cls |-> cls, mod |-> mod,
     isInferenceData |-> FALSE, isStr |-> FALSE, chars |-> <<>>,
     isDataset |-> FALSE, isDataArray |-> FALSE, isDict |-> FALSE,
     nested |-> FALSE, isNdarray |-> FALSE, isSeq |-> FALSE, elems |-> <<>>,
     name |-> "<None>", groups |-> NoGroups, vars |-> {}]

NoneObj == Base(0, "NoneType", BUILTINS)

StrObj(id, cls, chars) == [Base(id, cls, BUILTINS) EXCEPT !.isStr = TRUE, !.chars = chars]

\* An element of a list or tuple.
Elem(isStr, chars) == [isStr |-> isStr, chars |-> chars]

SeqObj(id, elems) ==
    [Base(id, "list", BUILTINS) EXCEPT !.isSeq = TRUE, !.elems = elems, !.nested = TRUE]

XARRAY == <<"x", "a", "r", "r", "a", "y">>
ARVIZ == <<"a", "r", "v", "i", "z">>
MYLIB == <<"m", "y", "l", "i", "b">>

Container(id, groups) ==
    [Base(id, "InferenceData", ARVIZ) EXCEPT !.isInferenceData = TRUE, !.groups = groups]

A_CSV == <<"a", ".", "c", "s", "v">>
A_NC == <<"a", ".", "n", "c">>
A_TXT == <<"a", ".", "t", "x", "t">>

\* The values callers pass as obj.
InputObjects ==
    { Container(1, [NoGroups EXCEPT !["posterior"] = DSRef(51, {"mu"})]),
      StrObj(2, "str", A_CSV),
      StrObj(3, "str", A_NC),
      StrObj(4, "EnsembleSampler", A_NC),
      Base(5, "StanFit16Model", MYLIB),
      Base(6, "CmdStanMCMC", MYLIB),
      Base(7, "Fit", STAN_FIT),
      Base(8, "EnsembleSampler", MYLIB),
      Base(9, "MonteCarloSamples", MYLIB),
      Base(10, "MCMC", PYRO \o <<".", "x">>),
      Base(11, "MCMC", NUMPYRO \o <<".", "x">>),
      Base(12, "MCMC", MYLIB),
      [Base(13, "Dataset", XARRAY) EXCEPT !.isDataset = TRUE, !.vars = {"mu"}],
      [Base(14, "DatasetDict", MYLIB) EXCEPT
          !.isDataset = TRUE, !.isDict = TRUE, !.nested = TRUE, !.vars = {"mu"}],
      [Base(15, "DataArray", XARRAY) EXCEPT !.isDataArray = TRUE],
      [Base(16, "DataArray", XARRAY) EXCEPT !.isDataArray = TRUE],
      [Base(17, "dict", BUILTINS) EXCEPT !.isDict = TRUE, !.nested = TRUE, !.vars = {"alpha"}],
      [Base(18, "Tree", MYLIB) EXCEPT !.nested = TRUE, !.vars = {"alpha"}],
      [Base(19, "ndarray", MYLIB) EXCEPT !.isNdarray = TRUE],
      SeqObj(20, <<Elem(TRUE, A_CSV)>>),
      SeqObj(21, <<>>),
      SeqObj(22, <<Elem(FALSE, <<>>)>>),
      SeqObj(23, <<Elem(TRUE, A_TXT)>>),
      [SeqObj(24, <<Elem(TRUE, A_CSV)>>) EXCEPT !.nested = FALSE],
      Base(25, "int", BUILTINS) }

\* The DataArray objects of the caller and the name each starts with.
DataArrayIds == {15, 16}
InitialArrayName == [i \in DataArrayIds |-> IF i = 15 THEN "<None>" ELSE "y"]

\* The values callers pass as coords and dims.
CoordsObj == [Base(31, "dict", BUILTINS) EXCEPT !.isDict = TRUE]
DimsObj == [Base(32, "dict", BUILTINS) EXCEPT !.isDict = TRUE]
\* A pass-through option value.
OptObj == Base(33, "bool", BUILTINS)

\* ---------------------------------------------------------------- bags

EmptyBag == [k \in {} |-> NoneObj]

\* kwargs[k] = v
Put(bag, k, v) == [x \in (DOMAIN bag) \cup {k} |-> IF x = k THEN v ELSE bag[x]]

\* the bag left by kwargs.pop(k)
Drop(bag, k) == [x \in (DOMAIN bag) \ {k} |-> bag[x]]

\* The pass-through keyword options callers supply (**kwargs).
KwargsChoices ==
    { EmptyBag,
      Put(EmptyBag, "posterior", OptObj),
      Put(EmptyBag, "sample_stats_prior", OptObj) }

\* ---------------------------------------------------------------- coverage table

Branches == 1..30

AllFalse == [i \in Branches |-> FALSE]

MarkToggle(bids, k) == [bids EXCEPT ![k] = ~@]
\* branch_ids[k] = True
Mark(bids, k) == [bids EXCEPT ![k] = TRUE]

\* the marks a call makes, in the order it makes them
RECURSIVE MarkAll(_, _)
MarkAll(bids, hits) ==
    IF hits = <<>> THEN bids ELSE MarkAll(Mark(bids, Head(hits)), Tail(hits))

Range(s) == {s[i] : i \in DOMAIN s}

\* ---------------------------------------------------------------- messages

Msg(text, names, arg) == [text |-> text, names |-> names, arg |-> arg]
NoMsg == Msg("", <<>>, "")

MsgInferenceData == Msg("Cannot use coords or dims arguments with InferenceData value.", <<>>, "")
MsgNetcdf ==
    Msg("Cannot use coords or dims arguments reading InferenceData from netcdf.", <<>>, "")

allowable_types ==
    << "xarray dataarray", "xarray dataset", "dict", "pytree (if 'dm-tree' is installed)",
       "netcdf filename", "numpy array", "pystan fit", "emcee fit", "pyro mcmc fit",
       "numpyro mcmc fit", "cmdstan fit csv filename", "cmdstanpy fit" >>

\* f'Can only convert {", ".join(allowable_types)} to InferenceData, not {obj.__class__.__name__}'
MsgUnrecognized(obj) ==
    Msg("Can only convert {allowable_types} to InferenceData, not {type}",
        allowable_types, obj.cls)

\* "Can not extract {group} from {obj}! See {filename} for other conversion utilities."
MsgMissingGroup(group) ==
    Msg("Can not extract {group} from {obj}! See {filename} for other conversion utilities.",
        <<>>, group)

\* ---------------------------------------------------------------- decisions

\* What one run of the dispatcher's body decides: the branches it marked (in
\* hits, and in the table), and how it ends.
\*   act = "return_obj" : return obj itself
\*   act = "extract"    : return extractor(**bag)
\*   act = "wrap"       : return InferenceData(**{group: dataset})
\*   act = "raise"      : raise exc(msg)
Decision(hits, bids, act, exc, msg, extractor, bag, dataset, setname) ==
    [bids |-> MarkAll(bids, hits), path |-> Range(hits), act |-> act, exc |-> exc,
     msg |-> msg, extractor |-> extractor, bag |-> bag, dataset |-> dataset,
     setname |-> setname]

Raise(hits, bids, exc, msg) ==
    Decision(hits, bids, "raise", exc, msg, "none", EmptyBag, NoDS, FALSE)

ReturnObj(hits, bids) ==
    Decision(hits, bids, "return_obj", "none", NoMsg, "none", EmptyBag, NoDS, FALSE)

Extract(hits, bids, extractor, bag) ==
    Decision(hits, bids, "extract", "none", NoMsg, extractor, bag, NoDS, FALSE)

Wrap(hits, bids, dataset, setname) ==
    Decision(hits, bids, "wrap", "none", NoMsg, "none", EmptyBag, dataset, setname)

\* extractor(kw=kwargs.pop(group), **kwargs): Python refuses a keyword given twice.
MsgMultipleValues == Msg("got multiple values for keyword argument", <<>>, "")
ExtractWith(hits, bids, extractor, kw, group, bag) ==
    IF kw \in DOMAIN Drop(bag, group)
    THEN Raise(hits, bids, "TypeError", MsgMultipleValues)
    ELSE Extract(hits, bids, extractor, Put(Drop(bag, group), kw, bag[group]))

\* ---------------------------------------------------------------- group routing

\* kwargs[to] = kwargs.pop(from): pop raises KeyError when the key is missing.
MoveKey(bag, from, to) ==
    IF from \notin DOMAIN bag
    THEN [err |-> "KeyError", bag |-> bag]
    ELSE [err |-> "none", bag |-> Put(Drop(bag, from), to, bag[from])]

Routed(hits, r) == [err |-> r.err, bag |-> r.bag, hits |-> hits]

\* the routing step of the ".csv" path branch
RouteCsvPath(group, bag) ==
    IF group = "sample_stats" THEN Routed(<<6>>, MoveKey(bag, group, "posterior"))
    ELSE IF group = "sample_stats_prior" THEN Routed(<<7>>, MoveKey(bag, group, "prior"))
    ELSE [err |-> "none", bag |-> bag, hits |-> <<8>>]

\* the routing step of the sampler-fit branch
RouteFit(group, bag) ==
    IF group = "sample_stats" THEN Routed(<<13>>, MoveKey(bag, group, "posterior"))
    ELSE IF group = "sample_stats_prior" THEN Routed(<<14>>, MoveKey(bag, group, "prior"))
    ELSE [err |-> "none", bag |-> bag, hits |-> <<>>]

RouteCsvListUnrouted(group, bag) ==
    IF group = "sample_stats" THEN Routed(<<28>>, MoveKey(bag, group, "posterior"))
    ELSE [err |-> "none", bag |-> bag, hits |-> <<>>]
\* the routing step of the list-of-csv-files branch
RouteCsvList(group, bag) ==
    IF group = "sample_stats" THEN Routed(<<28>>, MoveKey(bag, group, "posterior"))
    ELSE IF group = "sample_stats_prior" THEN Routed(<<29>>, MoveKey(bag, group, "prior"))
    ELSE [err |-> "none", bag |-> bag, hits |-> <<>>]

MsgKeyError(group) == Msg("KeyError", <<>>, group)

\* route, then call the extractor with the routed bag
RouteAndExtract(hits, bids, r, tail, extractor, group) ==
    IF r.err # "none"
    THEN Raise(hits \o r.hits, bids, r.err, MsgKeyError(group))
    ELSE Extract(hits \o r.hits \o tail, bids, extractor, r.bag)

\* ---------------------------------------------------------------- shape predicates

IsNone(v) == v.id = NoneObj.id

IsInferenceData(obj) == obj.isInferenceData
IsStr(obj) == obj.isStr
IsSamplerFit(obj) == obj.cls \in {"StanFit16Model", "CmdStanMCMC"} \/ obj.mod = STAN_FIT
IsEnsembleSampler(obj) == obj.cls = "EnsembleSampler"
IsMonteCarloSamples(obj) == obj.cls = "MonteCarloSamples"
IsPyroMCMC(obj) == obj.cls = "MCMC" /\ startswith(obj.mod, PYRO)
IsNumpyroMCMC(obj) == obj.cls = "MCMC" /\ startswith(obj.mod, NUMPYRO)
IsDataset(obj) == obj.isDataset
IsDataArray(obj) == obj.isDataArray
IsDict(obj) == obj.isDict
\* is_nested is tree.is_nested, or the stub that answers False when dm-tree is missing
is_nested(obj) == obj.nested
IsTree(obj) == is_nested(obj) /\ ~obj.isSeq
IsNdarray(obj) == obj.isNdarray
\* obj[0] raises IndexError on an empty list or tuple
SubscriptFails(obj) == obj.isSeq /\ Len(obj.elems) = 0
IsCsvList(obj) ==
    /\ obj.isSeq
    /\ Len(obj.elems) > 0
    /\ obj.elems[1].isStr
    /\ endswith(obj.elems[1].chars, CSV)

MsgIndexError == Msg("list index out of range", <<>>, "")

\* ---------------------------------------------------------------- the dispatcher

\* kwargs[group] = obj; kwargs["coords"] = coords; kwargs["dims"] = dims
Stage(kwargs, group, obj, coords, dims) ==
    Put(Put(Put(kwargs, group, obj), "coords", coords), "dims", dims)

\* external: dict_to_dataset(data, coords=coords, dims=dims), a new dataset
\* holding the variables of data
dict_to_dataset(fresh, names) == DSRef(fresh, names)

\* external: DataArray.to_dataset(), a new dataset holding the array under its name
to_dataset(fresh, name) == DSRef(fresh, {name})

DispatchXarrayDictFirst(obj, group, bag, bids, fresh) ==
    IF IsDict(obj) THEN Wrap(<<24>>, bids, dict_to_dataset(fresh, obj.vars), FALSE)
    ELSE IF IsDataset(obj) THEN Wrap(<<21>>, bids, DSRef(obj.id, obj.vars), FALSE)
    ELSE IF IsDataArray(obj) THEN
        IF obj.name = "<None>"
        THEN Wrap(<<22>>, bids, to_dataset(fresh, "x"), TRUE)
        ELSE Wrap(<<22, 23>>, bids, to_dataset(fresh, obj.name), FALSE)
    ELSE IF IsTree(obj) THEN Wrap(<<25>>, bids, dict_to_dataset(fresh, obj.vars), FALSE)
    ELSE IF IsNdarray(obj) THEN Wrap(<<26>>, bids, dict_to_dataset(fresh, {"x"}), FALSE)
    ELSE IF SubscriptFails(obj) THEN Raise(<<>>, bids, "IndexError", MsgIndexError)
    ELSE IF IsCsvList(obj) THEN
        RouteAndExtract(<<27>>, bids, RouteCsvList(group, bag), <<>>, "from_cmdstan", group)
    ELSE Raise(<<30>>, bids, "ValueError", MsgUnrecognized(obj))

\* "Cases that convert to xarray", and the two endings after them
DispatchXarray(obj, group, bag, bids, fresh) ==
    IF IsDataset(obj) THEN Wrap(<<21>>, bids, DSRef(obj.id, obj.vars), FALSE)
    ELSE IF IsDataArray(obj) THEN
        IF obj.name = "<None>"
        THEN Wrap(<<22>>, bids, to_dataset(fresh, "x"), TRUE)
        ELSE Wrap(<<22, 23>>, bids, to_dataset(fresh, obj.name), FALSE)
    ELSE IF IsDict(obj) THEN Wrap(<<24>>, bids, dict_to_dataset(fresh, obj.vars), FALSE)
    ELSE IF IsTree(obj) THEN Wrap(<<25>>, bids, dict_to_dataset(fresh, obj.vars), FALSE)
    ELSE IF IsNdarray(obj) THEN Wrap(<<26>>, bids, dict_to_dataset(fresh, {"x"}), FALSE)
    ELSE IF SubscriptFails(obj) THEN Raise(<<>>, bids, "IndexError", MsgIndexError)
    ELSE IF IsCsvList(obj) THEN
        RouteAndExtract(<<27>>, bids, RouteCsvList(group, bag), <<>>, "from_cmdstan", group)
    ELSE Raise(<<30>>, bids, "ValueError", MsgUnrecognized(obj))

\* coords is not None or dims is not None, in the InferenceData branch
OverridesInferenceData(coords, dims) == ~IsNone(coords) \/ ~IsNone(dims)

OverridesNetcdfBoth(coords, dims) == ~IsNone(coords) /\ ~IsNone(dims)
\* coords is not None or dims is not None, in the netcdf branch
OverridesNetcdf(coords, dims) == ~IsNone(coords) \/ ~IsNone(dims)

\* the body of convert_to_inference_data, up to the call of an external
\* constructor or extractor
Dispatch(obj, group, coords, dims, kwargs, bids, fresh) ==
    LET bag == Stage(kwargs, group, obj, coords, dims)
    IN
    IF IsInferenceData(obj) THEN
        IF OverridesInferenceData(coords, dims)
        THEN Raise(<<1, 2>>, bids, "TypeError", MsgInferenceData)
        ELSE ReturnObj(<<1, 3>>, bids)
    ELSE IF IsStr(obj) THEN
        IF endswith(obj.chars, CSV)
        THEN RouteAndExtract(<<4, 5>>, bids, RouteCsvPath(group, bag), <<>>,
                             "from_cmdstan", group)
        ELSE IF OverridesNetcdf(coords, dims)
             THEN Raise(<<4, 9, 10>>, bids, "TypeError", MsgNetcdf)
             ELSE Extract(<<4, 9, 11>>, bids, "from_netcdf", Put(EmptyBag, "filename", obj))
    ELSE IF IsSamplerFit(obj) THEN
        IF obj.cls = "CmdStanMCMC"
        THEN RouteAndExtract(<<12>>, bids, RouteFit(group, bag), <<15>>,
                             "from_cmdstanpy", group)
        ELSE RouteAndExtract(<<12>>, bids, RouteFit(group, bag), <<16>>,
                             "from_pystan", group)
    ELSE IF IsEnsembleSampler(obj) THEN
        ExtractWith(<<17>>, bids, "from_emcee", "sampler", group, bag)
    ELSE IF IsMonteCarloSamples(obj) THEN
        ExtractWith(<<18>>, bids, "from_beanmachine", "sampler", group, bag)
    ELSE IF IsPyroMCMC(obj) THEN
        ExtractWith(<<19>>, bids, "from_pyro", "posterior", group, bag)
    ELSE IF IsNumpyroMCMC(obj) THEN
        ExtractWith(<<20>>, bids, "from_numpyro", "posterior", group, bag)
    ELSE DispatchXarray(obj, group, bag, bids, fresh)

\* ---------------------------------------------------------------- collaborators

\* external: InferenceData(**{group: dataset}), a new container whose only
\* group is the one given
NewInferenceData(id, group, dataset) == Container(id, [NoGroups EXCEPT ![group] = dataset])

\* external: the containers an extractor (or InferenceData.from_netcdf) may return
ExtractorOutputs(id) ==
    { Container(id, [NoGroups EXCEPT !["posterior"] = DSRef(301, {"theta"}),
                                     !["sample_stats"] = DSRef(302, {"lp"})]) }

GetPosterior(inference_data, group) == inference_data.groups["posterior"]
\* getattr(inference_data, group, None)
GetGroup(inference_data, group) == inference_data.groups[group]

\* ---------------------------------------------------------------- outcomes

Outcome(kind, exc, msg, container, dataset, d) ==
    [kind |-> kind, exc |-> exc, msg |-> msg, container |-> container,
     dataset |-> dataset, act |-> d.act, extractor |-> d.extractor, bag |-> d.bag,
     path |-> d.path]

NoDecision == [act |-> "none", extractor |-> "none", bag |-> EmptyBag, path |-> {}]
NoOutcome == Outcome("none", "none", NoMsg, NoneObj, NoDS, NoDecision)

ReturnedCopy(obj, id) == [obj EXCEPT !.id = id]
\* return obj
ReturnedObject(obj, id) == obj

WrapDatasetAsPosterior(id, group, dataset) == NewInferenceData(id, "posterior", dataset)
\* return InferenceData(**{group: dataset})
WrapDataset(id, group, dataset) == NewInferenceData(id, group, dataset)

\* how convert_to_inference_data ends once the dispatcher has decided;
\* an error raised inside an extractor propagates unchanged
Finish(d, obj, group, id) ==
    IF d.act = "raise" THEN {Outcome("raise", d.exc, d.msg, NoneObj, NoDS, d)}
    ELSE IF d.act = "return_obj" THEN {Outcome("return", "none", NoMsg, ReturnedObject(obj, id), NoDS, d)}
    ELSE IF d.act = "wrap"
    THEN {Outcome("return", "none", NoMsg, WrapDataset(id, group, d.dataset), NoDS, d)}
    ELSE {Outcome("raise", "ExtractorError", NoMsg, NoneObj, NoDS, d)}
         \cup {Outcome("return", "none", NoMsg, c, NoDS, d) : c \in ExtractorOutputs(id)}

\* the rest of convert_to_dataset, after convert_to_inference_data
Project(inner, group) ==
    IF inner.kind = "raise" THEN inner
    ELSE IF IsNone(GetGroup(inner.container, group))
    THEN [inner EXCEPT !.kind = "raise", !.exc = "ValueError", !.msg = MsgMissingGroup(group)]
    ELSE [inner EXCEPT !.dataset = GetGroup(inner.container, group)]

\* ---------------------------------------------------------------- the program

Call(fn, obj, group, coords, dims, kwargs) ==
    [fn |-> fn, obj |-> obj, group |-> group, coords |-> coords, dims |-> dims,
     kwargs |-> kwargs]

NoCall == Call("none", NoneObj, "posterior", NoneObj, NoneObj, EmptyBag)

\* the caller's object as it is in heap
Deref(heap, o) == IF o.id \in DataArrayIds THEN [o EXCEPT !.name = heap[o.id]] ELSE o

\* obj.name = "x"
SetName(heap, obj, d) == IF d.setname THEN [heap EXCEPT ![obj.id] = "x"] ELSE heap

\* one call of convert_to_inference_data(obj, group=, coords=, dims=, **kwargs)
RunConvertToInferenceData(obj, group, coords, dims, kwargs) ==
    \E d \in {Dispatch(obj, group, coords, dims, kwargs, branch_ids, 201 + ncalls)} :
       /\ branch_ids' = d.bids
       /\ before' = branch_ids
       /\ arrayName' = SetName(arrayName, obj, d)
       /\ call' = Call("convert_to_inference_data", obj, group, coords, dims, kwargs)
       /\ outcome' \in Finish(d, obj, group, 101 + ncalls)
       /\ ncalls' = ncalls + 1

\* one call of convert_to_dataset(obj, group=, coords=, dims=)
RunConvertToDataset(obj, group, coords, dims) ==
    \E d \in {Dispatch(obj, group, coords, dims, EmptyBag, branch_ids, 201 + ncalls)} :
       /\ branch_ids' = d.bids
       /\ before' = branch_ids
       /\ arrayName' = SetName(arrayName, obj, d)
       /\ call' = Call("convert_to_dataset", obj, group, coords, dims, EmptyBag)
       /\ \E inner \in Finish(d, obj, group, 101 + ncalls) :
            outcome' = Project(inner, group)
       /\ ncalls' = ncalls + 1

RouteIdle ==
    /\ rgroup = "posterior"
    /\ rsite = "none"
    /\ rbag = EmptyBag
    /\ rprev = EmptyBag
    /\ rerr = "none"
    /\ rsteps = 0

\* ---- Spec: one call, from every argument tuple and every heap a caller can
\* ---- present to it

\* the names the caller's DataArray objects can have when a call starts
Heaps == {InitialArrayName, [InitialArrayName EXCEPT ![15] = "x"]}

Overrides == {NoneObj, CoordsObj} \X {NoneObj, DimsObj}

PendingCalls(heap) ==
    {Call("convert_to_inference_data", Deref(heap, o), g, cd[1], cd[2], kw) :
        o \in InputObjects, g \in Groups, cd \in Overrides, kw \in KwargsChoices}
    \cup
    {Call("convert_to_dataset", Deref(heap, o), g, cd[1], cd[2], EmptyBag) :
        o \in InputObjects, g \in Groups, cd \in Overrides}

Init ==
    /\ branch_ids = AllFalse
    /\ before = AllFalse
    /\ arrayName \in Heaps
    /\ call \in PendingCalls(arrayName)
    /\ outcome = NoOutcome
    /\ ncalls = 0
    /\ RouteIdle

ConvertToInferenceData ==
    /\ outcome.kind = "none"
    /\ call.fn = "convert_to_inference_data"
    /\ RunConvertToInferenceData(call.obj, call.group, call.coords, call.dims, call.kwargs)
    /\ UNCHANGED routeVars

ConvertToDataset ==
    /\ outcome.kind = "none"
    /\ call.fn = "convert_to_dataset"
    /\ RunConvertToDataset(call.obj, call.group, call.coords, call.dims)
    /\ UNCHANGED routeVars

Next == ConvertToInferenceData \/ ConvertToDataset

Spec == Init /\ [][Next]_vars

\* ---- SpecCalls: sequences of calls, starting from the freshly imported module

\* a container an earlier conversion returned can be converted again
Returned ==
    IF outcome.kind = "return" /\ call.fn = "convert_to_inference_data"
    THEN {outcome.container} ELSE {}

Inputs == {Deref(arrayName, o) : o \in InputObjects} \cup Returned

SeqGroups == {"posterior", "sample_stats"}
SeqOverrides == {<<NoneObj, NoneObj>>, <<CoordsObj, NoneObj>>}

InitCalls ==
    /\ branch_ids = AllFalse
    /\ before = AllFalse
    /\ arrayName = InitialArrayName
    /\ call = NoCall
    /\ outcome = NoOutcome
    /\ ncalls = 0
    /\ RouteIdle

CallConvertToInferenceData ==
    /\ ncalls < MaxCalls
    /\ \E obj \in Inputs, group \in SeqGroups, cd \in SeqOverrides :
        RunConvertToInferenceData(obj, group, cd[1], cd[2], EmptyBag)
    /\ UNCHANGED routeVars

CallConvertToDataset ==
    /\ ncalls < MaxCalls
    /\ \E obj \in Inputs, group \in SeqGroups :
        RunConvertToDataset(obj, group, NoneObj, NoneObj)
    /\ UNCHANGED routeVars

NextCalls == CallConvertToInferenceData \/ CallConvertToDataset

SpecCalls == InitCalls /\ [][NextCalls]_vars

\* ---- SpecRoute: the group-routing step on its own, applied repeatedly to
\* ---- one staged argument bag

Sites == {"csv_path", "fit", "csv_list"}

\* the objects that reach each copy of the routing step
SiteObjects(site) ==
    IF site = "csv_path" THEN {o \in InputObjects : o.id = 2}
    ELSE IF site = "fit" THEN {o \in InputObjects : o.id \in {5, 6, 7}}
    ELSE {o \in InputObjects : o.id \in {20, 24}}

RouteStep(site, group, bag) ==
    IF site = "csv_path" THEN RouteCsvPath(group, bag)
    ELSE IF site = "fit" THEN RouteFit(group, bag)
    ELSE RouteCsvList(group, bag)

InitRoute ==
    /\ branch_ids = AllFalse
    /\ before = AllFalse
    /\ arrayName = InitialArrayName
    /\ call = NoCall
    /\ outcome = NoOutcome
    /\ ncalls = 0
    /\ rgroup \in Groups
    /\ rsite \in Sites
    /\ rbag \in {Stage(kw, rgroup, o, cd[1], cd[2]) :
                    o \in SiteObjects(rsite), kw \in KwargsChoices, cd \in Overrides}
    /\ rprev = rbag
    /\ rerr = "none"
    /\ rsteps = 0

ApplyRoute ==
    /\ rsteps < MaxRouteSteps
    /\ rerr = "none"
    /\ \E r \in {RouteStep(rsite, rgroup, rbag)} :
        /\ branch_ids' = MarkAll(branch_ids, r.hits)
        /\ rprev' = rbag
        /\ rbag' = r.bag
        /\ rerr' = r.err
    /\ rsteps' = rsteps + 1
    /\ UNCHANGED <<before, arrayName, call, outcome, ncalls, rgroup, rsite>>

NextRoute == ApplyRoute

SpecRoute == InitRoute /\ [][NextRoute]_vars

\* ---------------------------------------------------------------- properties

Done == outcome.kind # "none"
Obj == call.obj
HasOverrides == ~IsNone(call.coords) \/ ~IsNone(call.dims)
Aliases == {"sample_stats", "sample_stats_prior"}

\* the groups a container holds
GroupsOf(c) == {g \in Groups : ~IsNone(c.groups[g])}

\* the recognized shapes, numbered in the order the classifier tries them
Shapes == 1..12

Satisfies(i, o) ==
    IF i = 1 THEN IsInferenceData(o)
    ELSE IF i = 2 THEN IsStr(o)
    ELSE IF i = 3 THEN IsSamplerFit(o)
    ELSE IF i = 4 THEN IsEnsembleSampler(o)
    ELSE IF i = 5 THEN IsMonteCarloSamples(o)
    ELSE IF i = 6 THEN IsPyroMCMC(o) \/ IsNumpyroMCMC(o)
    ELSE IF i = 7 THEN IsDataset(o)
    ELSE IF i = 8 THEN IsDataArray(o)
    ELSE IF i = 9 THEN IsDict(o)
    ELSE IF i = 10 THEN IsTree(o)
    ELSE IF i = 11 THEN IsNdarray(o)
    ELSE IsCsvList(o)

Matching(o) == {i \in Shapes : Satisfies(i, o)}

Lowest(S) == CHOOSE i \in S : \A j \in S : i <= j

\* the shape whose branch a call entered, read off the branches it marked
EntryBranches(i) ==
    IF i = 1 THEN {1} ELSE IF i = 2 THEN {4} ELSE IF i = 3 THEN {12}
    ELSE IF i = 4 THEN {17} ELSE IF i = 5 THEN {18} ELSE IF i = 6 THEN {19, 20}
    ELSE IF i = 7 THEN {21} ELSE IF i = 8 THEN {22} ELSE IF i = 9 THEN {24}
    ELSE IF i = 10 THEN {25} ELSE IF i = 11 THEN {26} ELSE {27}

ShapesTaken == {i \in Shapes : EntryBranches(i) \cap outcome.path # {}}

\* ---- C1

\* C1: converting an InferenceData container with the default group and with
\* coords=None and dims=None returns that very object (same identity, same
\* groups), also when the container is itself the result of an earlier
\* conversion.
C1_ReturnsSameObject ==
    ( /\ call.fn = "convert_to_inference_data"
      /\ IsInferenceData(Obj)
      /\ call.group = "posterior"
      /\ ~HasOverrides )
    => ( /\ outcome.kind = "return"
         /\ outcome.container = Obj
         /\ outcome.extractor = "none" )

C1_Witness ==
    /\ ncalls = 2
    /\ call.fn = "convert_to_inference_data"
    /\ IsInferenceData(Obj)
    /\ Obj.id > 100
    /\ call.group = "posterior"
    /\ ~HasOverrides
    /\ outcome.kind = "return"
    /\ outcome.container = Obj

\* ---- C2

\* C2: with coords or dims given (either alone suffices), an InferenceData
\* input or a string path not ending in ".csv" raises TypeError; no container
\* is returned and neither an extractor nor InferenceData.from_netcdf is called.
C2_UsageError ==
    ( /\ Done
      /\ HasOverrides
      /\ (IsInferenceData(Obj) \/ (IsStr(Obj) /\ ~endswith(Obj.chars, CSV))) )
    => ( /\ outcome.kind = "raise"
         /\ outcome.exc = "TypeError"
         /\ outcome.extractor = "none"
         /\ IsNone(outcome.container) )

C2_Witness ==
    /\ Done
    /\ call.fn = "convert_to_inference_data"
    /\ IsStr(Obj) /\ ~endswith(Obj.chars, CSV)
    /\ IsNone(call.coords) /\ ~IsNone(call.dims)
    /\ outcome.exc = "TypeError"
    /\ outcome.msg = MsgNetcdf

\* ---- C3

\* a call that reached an extractor through one of the routing call sites
RoutedCall ==
    /\ Done
    /\ outcome.act = "extract"
    /\ outcome.extractor \in {"from_cmdstan", "from_cmdstanpy", "from_pystan"}

ValueUnder(key) == key \in DOMAIN outcome.bag /\ outcome.bag[key] = Obj

\* C3 as stated: at every routing call site the extractor receives the input
\* under posterior for group sample_stats, under prior for sample_stats_prior,
\* the bag then holds no key named sample_stats or sample_stats_prior, and for
\* every other group the value is passed under the group name.
C3_AsStated ==
    RoutedCall =>
        /\ (call.group = "sample_stats" => ValueUnder("posterior"))
        /\ (call.group = "sample_stats_prior" => ValueUnder("prior"))
        /\ (call.group \in Aliases => Aliases \cap DOMAIN outcome.bag = {})
        /\ (call.group \notin Aliases => ValueUnder(call.group))

\* C3, amended: as C3, except that the bag holds no key named by the target
\* group; the other alias name is a key of the bag exactly when the caller
\* supplied it as a pass-through option, and then with the caller's value.
C3_AliasRouting ==
    RoutedCall =>
        /\ (call.group = "sample_stats" => ValueUnder("posterior"))
        /\ (call.group = "sample_stats_prior" => ValueUnder("prior"))
        /\ (call.group \in Aliases => call.group \notin DOMAIN outcome.bag)
        /\ \A k \in Aliases \ {call.group} :
              /\ k \in DOMAIN outcome.bag <=> k \in DOMAIN call.kwargs
              /\ k \in DOMAIN outcome.bag => outcome.bag[k] = call.kwargs[k]
        /\ (call.group \notin Aliases => ValueUnder(call.group))

C3_Witness ==
    /\ RoutedCall
    /\ IsCsvList(Obj)
    /\ call.group = "sample_stats_prior"
    /\ ValueUnder("prior")
    /\ Aliases \cap DOMAIN outcome.bag = {}

\* ---- C4

\* C4: the branch a call takes is that of the lowest-numbered shape whose
\* predicate the input satisfies.
C4_FirstMatchWins ==
    (Done /\ Matching(Obj) # {}) => ShapesTaken = {Lowest(Matching(Obj))}

C4_Witness ==
    /\ Done
    /\ {7, 9} \subseteq Matching(Obj)
    /\ ShapesTaken = {7}

\* ---- C5

\* C5: for an input of a dataset-producing shape and any target group, the
\* container returned has exactly one group, keyed by the target group; a numpy
\* array and an unnamed DataArray give exactly the variable "x", a named
\* DataArray keeps its name.
C5_SingleGroup ==
    (Done /\ ShapesTaken \cap (7..11) # {}) =>
        /\ outcome.kind = "return"
        /\ IsInferenceData(outcome.container)
        /\ GroupsOf(outcome.container) = {call.group}
        /\ (ShapesTaken = {11} => outcome.container.groups[call.group].vars = {"x"})
        /\ (ShapesTaken = {8} =>
              outcome.container.groups[call.group].vars =
                  {IF Obj.name = "<None>" THEN "x" ELSE Obj.name})

C5_Witness ==
    /\ Done
    /\ call.fn = "convert_to_inference_data"
    /\ IsDataArray(Obj) /\ Obj.name = "<None>"
    /\ call.group = "prior"
    /\ GroupsOf(outcome.container) = {"prior"}
    /\ outcome.container.groups["prior"].vars = {"x"}
    /\ arrayName[Obj.id] = "x"

\* ---- C6

\* C6: convert_to_dataset(obj, group=g) returns the dataset stored under g in
\* the container convert_to_inference_data produced, and raises ValueError
\* naming g when that container has no group g; it never returns None.
C6_Projection ==
    (Done /\ call.fn = "convert_to_dataset" /\ IsInferenceData(outcome.container)) =>
        IF call.group \in GroupsOf(outcome.container)
        THEN /\ outcome.kind = "return"
             /\ outcome.dataset = outcome.container.groups[call.group]
             /\ ~IsNone(outcome.dataset)
        ELSE /\ outcome.kind = "raise"
             /\ outcome.exc = "ValueError"
             /\ outcome.msg.arg = call.group

C6_Witness ==
    /\ Done
    /\ call.fn = "convert_to_dataset"
    /\ IsInferenceData(Obj)
    /\ GroupsOf(Obj) = {"posterior"}
    /\ call.group = "prior"
    /\ outcome.kind = "raise"
    /\ outcome.exc = "ValueError"
    /\ outcome.msg = MsgMissingGroup("prior")

\* ---- C7

\* the recognized shapes an entry of the message stands for
ShapesNamedBy(entry) ==
    IF entry = "xarray dataarray" THEN {8}
    ELSE IF entry = "xarray dataset" THEN {7}
    ELSE IF entry = "dict" THEN {9}
    ELSE IF entry = "pytree (if 'dm-tree' is installed)" THEN {10}
    ELSE IF entry = "netcdf filename" THEN {2}
    ELSE IF entry = "numpy array" THEN {11}
    ELSE IF entry \in {"pystan fit", "cmdstanpy fit"} THEN {3}
    ELSE IF entry = "emcee fit" THEN {4}
    ELSE IF entry \in {"pyro mcmc fit", "numpyro mcmc fit"} THEN {6}
    ELSE IF entry = "cmdstan fit csv filename" THEN {2, 12}
    ELSE {}

Unrecognized == Done /\ outcome.kind = "raise" /\ 30 \in outcome.path

\* C7: the unrecognized-shape error message names every one of the 12
\* recognized shapes and the runtime type of the value received.
C7_MessageNamesEveryShape ==
    Unrecognized =>
        /\ \A i \in Shapes :
              \E k \in DOMAIN outcome.msg.names : i \in ShapesNamedBy(outcome.msg.names[k])
        /\ outcome.msg.arg = Obj.cls

\* ---- C8

\* C8: an input that matches none of the 12 recognized shapes fails with the
\* unrecognized-shape ValueError and with no other kind of error.
C8_UnmatchedRaisesValueError ==
    (Done /\ Matching(Obj) = {}) =>
        /\ outcome.kind = "raise"
        /\ outcome.exc = "ValueError"
        /\ outcome.msg = MsgUnrecognized(Obj)

\* ---- C9

\* what the dispatcher decides for the last call's arguments on a freshly
\* imported module
Afresh == Dispatch(call.obj, call.group, call.coords, call.dims, call.kwargs, AllFalse, 0)

\* the last call ended as the decision d says (an extractor, and the lookup of
\* convert_to_dataset, may raise after the dispatcher has decided)
DecidedAs(d) ==
    /\ outcome.act = d.act
    /\ outcome.extractor = d.extractor
    /\ outcome.bag = d.bag
    /\ outcome.path = d.path
    /\ d.act = "raise" => (outcome.kind = "raise" /\ outcome.exc = d.exc /\ outcome.msg = d.msg)

\* C9 as stated: after a call every module-level variable has the value it had
\* before the call.
C9_AsStated == Done => branch_ids = before

\* C9, amended: the only module-level state a call changes is the coverage
\* table branch_ids, in which the call sets the entries of the branches it
\* takes to True and resets none; what the dispatcher decides (ending,
\* extractor, argument bag, branches) is what it decides for the same arguments
\* on a freshly imported module.
C9_OnlyCoverageChanges ==
    Done =>
        /\ \A k \in Branches : before[k] => branch_ids[k]
        /\ {k \in Branches : branch_ids[k]} = {k \in Branches : before[k]} \cup outcome.path
        /\ \A d \in {Afresh} : DecidedAs(d)

C9_Witness ==
    /\ ncalls = 2
    /\ Done
    /\ \E k \in Branches : before[k] /\ k \notin outcome.path
    /\ \E k \in Branches : before[k] /\ k \in outcome.path
    /\ \E k \in Branches : ~before[k] /\ k \in outcome.path

\* ---- C10

\* C10: applying the routing step a second time, with the same group name, to
\* a bag that has already been routed leaves the bag unchanged and raises no
\* error.
C10_RoutingIdempotent ==
    rsteps >= 2 => (rerr = "none" /\ rbag = rprev)

====
